---------------------------- MODULE Spec2Model ----------------------------
(***************************************************************************)
(* Heuristic schedulers of the repository:                                 *)
(*   run_heuristic.py  lp_relax / greedy (seed, two sweeps, prune) / main  *)
(*   run_greedy.py     greedy (seed, two passes) / main                    *)
(*                                                                         *)
(* Arithmetic.  The programs compute with floats; the model computes the   *)
(* same quantities exactly, as integers in fixed units:                    *)
(*   productivity P, accumulated effort a   in halves      (Unit.P = 2)    *)
(*   task weight S                          in halves      (Unit.S = 2)    *)
(*   completion x                           in 1/120       (Unit.X = 120)  *)
(*   course grade G, pass line B            in 1/240       (Unit.S*Unit.X) *)
(*   beta                                   in halves      (Unit.B = 2)    *)
(*   LP value val                           in percent                     *)
(*   utility                                in 1/(480 * sum of w)          *)
(* Every task effort E used below makes a*120/(2E) an integer, so x is     *)
(* exact.  The comparison tolerances of the code (1e-6) are far below one  *)
(* unit of utility, so "u + 1e-6 > v" is "u >= v" and "u > v + 1e-6" is    *)
(* "u > v" on these values.                                                *)
(*                                                                         *)
(* Indices.  run_heuristic.py turns days and shifts into 0-based indices;  *)
(* the model keeps the instance file's 1-based (day, shift) throughout.    *)
(***************************************************************************)
EXTENDS Integers, Sequences, FiniteSets, TLC

VARIABLES
    prog,        \* which program runs: "run_heuristic" or "run_greedy"
    inst,        \* the instance file given on the command line (index into Instances)
    R,           \* args.restarts
    pc,          \* position in the program
    restart,     \* number of restarts already finished (main's loop counter)
    mandatory,   \* the mandatory set handed to greedy
    todo,        \* elements a set/dict iteration has still to visit
    frac,        \* run_heuristic: the sorted candidate list
    pos,         \* run_heuristic: index of the next element of frac
    candidates,  \* run_greedy: the candidate list, as a set
    a2, x2, G, daily, occ, sched,   \* trackers of one greedy call
    unmet,       \* courses below their pass line
    util,        \* greedy's util; run_greedy's returned utility
    best_u, best_sched,             \* main's running best
    results,     \* history: what each finished restart returned
    removed,     \* history: the triples the pruner has removed in this call of greedy
    out          \* what main reports: <<kind, utility>>

vars == <<prog, inst, R, pc, restart, mandatory, todo, frac, pos, candidates,
          a2, x2, G, daily, occ, sched, unmet, util,
          best_u, best_sched, results, removed, out>>

trackers == <<a2, x2, G, daily, occ, sched>>
driver   == <<best_u, best_sched, results, out, restart>>

---------------------------------------------------------------------------
(* Bounds of the model and constants of the programs *)

MaxShift    == 6     \* shifts per day of the instances explored
MaxRestarts == 2     \* largest --restarts explored

WINDOW          == 6     \* break rule: window length
MAX_IN_WINDOW   == 4     \* break rule: worked shifts allowed per window
GPA_SCALE       == 4     \* objective: 4-point scale
SHIFTS_PER_HOUR == 1     \* run_greedy.py
best_u0         == -1000000000   \* main's initial best_u (-1e18), below every utility
NegInf          == -2000000000   \* run_greedy's float("-inf"), below every utility

Unit == [P |-> 2, S |-> 2, X |-> 120, B |-> 2]
\* Python's None, and a value that is not None
None == <<>>
Some(v) == <<v>>

Min(a, b) == IF a <= b THEN a ELSE b
Max(a, b) == IF a >= b THEN a ELSE b

RECURSIVE SumOver(_, _)
SumOver(f, D) ==
    IF D = {} THEN 0
    ELSE LET e == CHOOSE e \in D : TRUE IN f[e] + SumOver(f, D \ {e})

\* ceil(p / q) for p >= 0, q > 0
Ceil(p, q) == (p + q - 1) \div q

\* (k1,t1) <= (k2,t2) as Python compares tuples
LexLeq(s1, s2) == s1[1] < s2[1] \/ (s1[1] = s2[1] /\ s1[2] <= s2[2])

---------------------------------------------------------------------------
(* Instances.  A record follows the JSON instance: K, T, I, J, S, E, r, d, *)
(* P, slot, w, B, beta, H*; J is flattened to (course, task) pairs.  val   *)
(* is the LP solution value of each candidate, the oracle's output.  Pkeys *)
(* are the slots that have an entry in the sparse productivity map P.      *)

SlotsOf(K, T) == (1..K) \X (1..T)

\* productivity of a shift, by profile (halves)
ProdP(name, k, t) ==
    CASE name = "one"  -> 2
      [] name = "half" -> 1
      [] name = "alt"  -> IF t % 2 = 1 THEN 1 ELSE 2
      [] name = "late" -> IF t <= 2 THEN 1 ELSE 2

\* LP value of a candidate, by profile (percent)
ValP(name, k, t) ==
    CASE name = "flat" -> 100
      [] name = "asc"  -> 10 * t
      [] name = "desc" -> 10 * (MaxShift + 2 - t)
      [] name = "pair" -> 10 * ((t + 1) \div 2)

\* one course "c1" with one task "t1" over one day
One(E, prof, gap, B, beta, H, mand, vprof) ==
    LET J == {<<"c1", "t1">>}
        Sl == SlotsOf(1, MaxShift)
    IN [K |-> 1, T |-> MaxShift, I |-> {"c1"}, J |-> J,
        S |-> [q \in J |-> 2], E |-> [q \in J |-> E],
        r |-> [q \in J |-> <<1, 1>>], d |-> [q \in J |-> <<1, MaxShift>>],
        P |-> [q \in J |-> [s \in Sl |-> ProdP(prof, s[1], s[2])]],
        Pkeys |-> [q \in J |-> Sl \ gap],
        slot |-> [q \in J |-> mand],
        w |-> [c \in {"c1"} |-> 1], B |-> [c \in {"c1"} |-> B],
        beta |-> beta, H |-> [k \in 1..1 |-> H],
        val |-> [q \in J |-> [s \in Sl |-> IF s \in mand THEN 100 ELSE ValP(vprof, s[1], s[2])]]]

\* two tasks t1, t2 (of courses ca, cb, possibly the same) over K days
Two(K, ca, cb, S1, S2, E1, E2, p1, p2, r1, d1, r2, d2, m1, m2, wa, wb, Ba, Bb, beta, H, v1, v2) ==
    LET q1 == <<ca, "t1">>
        q2 == <<cb, "t2">>
        J  == {q1, q2}
        I  == {ca, cb}
        Sl == SlotsOf(K, MaxShift)
    IN [K |-> K, T |-> MaxShift, I |-> I, J |-> J,
        S |-> [q \in J |-> IF q = q1 THEN S1 ELSE S2],
        E |-> [q \in J |-> IF q = q1 THEN E1 ELSE E2],
        r |-> [q \in J |-> IF q = q1 THEN r1 ELSE r2],
        d |-> [q \in J |-> IF q = q1 THEN d1 ELSE d2],
        P |-> [q \in J |-> [s \in Sl |-> ProdP(IF q = q1 THEN p1 ELSE p2, s[1], s[2])]],
        Pkeys |-> [q \in J |-> Sl],
        slot |-> [q \in J |-> IF q = q1 THEN m1 ELSE m2],
        w |-> [c \in I |-> IF c = ca THEN wa ELSE wb],
        B |-> [c \in I |-> IF c = ca THEN Ba ELSE Bb],
        beta |-> beta, H |-> [k \in 1..K |-> H],
        val |-> [q \in J |-> [s \in Sl |->
                  IF s \in (IF q = q1 THEN m1 ELSE m2) THEN 100
                  ELSE ValP(IF q = q1 THEN v1 ELSE v2, s[1], s[2]) \div 2]]]

Instances ==
    <<  \* scenario 1 of the spec and its variants: E = 4, productivity 1
        One(4, "one", {}, 144, 0, 4, {}, "asc"),
        One(4, "one", {}, 144, 0, 4, {}, "pair"),
        One(4, "one", {}, 240, 1, 2, {}, "desc"),
        One(4, "one", {}, 288, 0, 4, {}, "asc"),
        \* a long task: six productive shifts needed
        One(6, "one", {}, 240, 1, 4, {}, "asc"),
        \* productivity 1/2: two shifts per unit of effort
        One(1, "half", {}, 240, 0, 4, {}, "desc"),
        One(2, "half", {}, 240, 1, 1, {}, "pair"),
        \* mixed productivity, small daily capacity
        One(2, "alt", {}, 120, 1, 1, {}, "asc"),
        One(2, "alt", {}, 120, 2, 1, {}, "asc"),
        One(2, "alt", {}, 120, 1, 1, {}, "desc"),
        One(1, "alt", {}, 240, 1, 1, {}, "desc"),
        One(1, "late", {}, 240, 2, 0, {}, "pair"),
        \* a sparse productivity map: no entry for the first and the last shift
        One(2, "one", {<<1, 1>>, <<1, MaxShift>>}, 240, 1, 4, {}, "asc"),
        \* mandatory attendance
        One(4, "one", {}, 0, 2, 0, {<<1, 2>>}, "asc"),
        One(4, "one", {}, 240, 1, 2, {<<1, 2>>, <<1, 5>>}, "desc"),
        One(1, "one", {}, 144, 1, 4, {<<1, 3>>, <<1, 4>>}, "asc"),
        \* two courses competing for the same shifts
        Two(1, "c1", "c2", 2, 2, 2, 2, "alt", "late",
            <<1, 1>>, <<1, 4>>, <<1, 2>>, <<1, 5>>,
            {}, {}, 1, 3, 120, 240, 1, 2, "asc", "asc"),
        Two(1, "c1", "c2", 2, 2, 2, 1, "alt", "one",
            <<1, 1>>, <<1, 3>>, <<1, 2>>, <<1, 4>>,
            {<<1, 1>>}, {<<1, 3>>}, 3, 1, 240, 240, 1, 1, "desc", "asc"),
        \* one course, a graded task and a zero-weight task
        Two(1, "c1", "c1", 2, 0, 2, 2, "one", "one",
            <<1, 2>>, <<1, 5>>, <<1, 1>>, <<1, 3>>,
            {}, {}, 1, 1, 240, 240, 0, 4, "asc", "desc"),
        \* one course, two graded tasks of weight 1/2, two days
        Two(2, "c1", "c1", 1, 1, 2, 1, "alt", "half",
            <<1, 4>>, <<2, 2>>, <<1, 5>>, <<2, 3>>,
            {}, {<<2, 1>>}, 2, 2, 180, 180, 1, 1, "asc", "desc"),
        \* one course, a short and a long task of weight 1/2, equal LP values
        Two(1, "c1", "c1", 1, 1, 1, 2, "one", "one",
            <<1, 1>>, <<1, 1>>, <<1, 2>>, <<1, 3>>,
            {}, {}, 1, 1, 120, 120, 0, 4, "flat", "flat"),
        \* mandatory attendance, no daily capacity, pass line 1/2
        One(4, "one", {}, 120, 2, 0, {<<1, 2>>}, "asc"),
        \* scenario 3 of the spec: two tasks of a course, both mandatory at (1,3)
        Two(1, "c1", "c1", 1, 1, 2, 2, "one", "one",
            <<1, 1>>, <<1, 4>>, <<1, 2>>, <<1, 5>>,
            {<<1, 3>>}, {<<1, 3>>}, 1, 1, 120, 120, 1, 4, "asc", "desc"),
        \* a mandatory slot (1,5) after the due slot (1,4) of its task
        Two(1, "c1", "c1", 1, 1, 2, 2, "one", "one",
            <<1, 2>>, <<1, 4>>, <<1, 1>>, <<1, 3>>,
            {<<1, 5>>}, {<<1, 1>>}, 1, 1, 120, 120, 1, 4, "asc", "desc"),
        \* a long task and no productivity entry for the first shift
        One(6, "one", {<<1, 1>>}, 240, 1, 4, {}, "asc"),
        \* mandatory attendance at a shift of productivity 1/2
        One(1, "alt", {}, 240, 1, 1, {<<1, 1>>}, "asc"),
        \* a half-productive shift ranked first, overtime as dear as its effect
        One(2, "alt", {}, 120, 2, 1, {}, "desc"),
        \* a pass line above the course's whole weight, uneven productivity
        One(2, "alt", {}, 288, 1, 4, {}, "asc"),
        \* a heavy task on slow shifts and a light task on fast shifts
        Two(1, "c1", "c2", 2, 1, 2, 2, "half", "one",
            <<1, 1>>, <<1, 2>>, <<1, 2>>, <<1, 3>>,
            {}, {}, 1, 1, 120, 120, 1, 4, "asc", "desc"),
        \* overtime from the first shift, dearer than a shift's effect
        One(4, "one", {}, 120, 3, 0, {}, "desc")
    >>

\* the instance the program has loaded
data == Instances[inst]

---------------------------------------------------------------------------
(* Pure functions shared by the programs.  A rec is <<k, t, c, task>>.     *)

SlotOf(rec) == <<rec[1], rec[2]>>
TaskOf(rec) == <<rec[3], rec[4]>>
AllRecs(dt) == {<<s[1], s[2], q[1], q[2]>> : s \in SlotsOf(dt.K, dt.T), q \in dt.J}
RecsOf(s, q) == {rec \in s : TaskOf(rec) = q}

\* build_numpy_blocks: the dense block P4 is 0 where P has no entry;
\* run_greedy reads P[c][task].get(key, 0.0): the same value
P4(dt, rec) ==
    IF SlotOf(rec) \in dt.Pkeys[TaskOf(rec)] THEN dt.P[TaskOf(rec)][SlotOf(rec)] ELSE 0

\* min(1.0, a / E)
completion(dt, q, a) == Min(Unit.X, (a * Unit.X) \div (Unit.P * dt.E[q]))

\* np.maximum(daily - Hk, 0).sum()
overtime(dt, dl) == SumOver([k \in 1..dt.K |-> Max(dl[k] - dt.H[k], 0)], 1..dt.K)

\* objective(G, w, overtime, beta) = (w @ G) / w.sum() * 4.0 - beta * overtime,
\* in units of 1/(480 * w.sum())
objective(dt, Gf, ot) ==
    GPA_SCALE * Unit.B * SumOver([c \in dt.I |-> dt.w[c] * Gf[c]], dt.I)
      - dt.beta * ot * Unit.S * Unit.X * SumOver(dt.w, dt.I)

\* run.py, lines 164-166: sum of w*G - beta * sum of z, where for a fixed
\* assignment the maximisation sets x = min(1, a/E) (lines 129-131, x <= 1)
\* and z = max(0, daily - H*) (lines 151-155); same units as objective
run_py_objective(dt, Gf, ot) ==
    Unit.B * SumOver(dt.w, dt.I) * SumOver([c \in dt.I |-> dt.w[c] * Gf[c]], dt.I)
      - dt.beta * ot * Unit.S * Unit.X * SumOver(dt.w, dt.I)

\* evaluate: a2, daily, x2, G and util recomputed from a schedule
eval_a(dt, s)     == [q \in dt.J |-> SumOver([rec \in RecsOf(s, q) |-> P4(dt, rec)], RecsOf(s, q))]
eval_daily(dt, s) == [k \in 1..dt.K |-> Cardinality({rec \in s : rec[1] = k})]
eval_x(dt, s)     == [q \in dt.J |-> completion(dt, q, eval_a(dt, s)[q])]
eval_G(dt, s)     ==
    [c \in dt.I |-> LET Jc == {q \in dt.J : q[1] = c}
                    IN SumOver([q \in Jc |-> dt.S[q] * eval_x(dt, s)[q]], Jc)]
evaluate(dt, s)   == objective(dt, eval_G(dt, s), overtime(dt, eval_daily(dt, s)))

\* r <= (k,t) <= d
InWindow(dt, rec) ==
    /\ LexLeq(dt.r[TaskOf(rec)], SlotOf(rec))
    /\ LexLeq(SlotOf(rec), dt.d[TaskOf(rec)])

\* lp_mandatory without the membership test of line 115: a fault that window
\* membership must detect
lp_mandatory_unfiltered(dt) == {rec \in AllRecs(dt) : SlotOf(rec) \in dt.slot[TaskOf(rec)]}

\* lp_relax: the variables y (one per candidate inside its window), the
\* mandatory set (slot entries that are variables), and the KeyError of
\* data["P"][c][task][key] on a candidate without a productivity entry
lp_y(dt)         == {rec \in AllRecs(dt) : InWindow(dt, rec)}
lp_mandatory(dt) == {rec \in lp_y(dt) : SlotOf(rec) \in dt.slot[TaskOf(rec)]}
lp_KeyError(dt)  == \E rec \in lp_y(dt) : SlotOf(rec) \notin dt.Pkeys[TaskOf(rec)]

\* the LP has no solution: y >= 1 for two variables of a slot whose sum is
\* at most 1 (lines 106-117); var.X then raises (line 123)
lp_infeasible(dt) ==
    \E m1 \in lp_mandatory(dt) : \E m2 \in lp_mandatory(dt) :
        m1 # m2 /\ SlotOf(m1) = SlotOf(m2)

\* the sort keys: a must not come after b when Before(mode, a, b)
\*   "rh":   frac.sort(key = (-val, -coef, random))
\*   "rg":   candidates.sort(key = (-S, -P, random))
\*   "rem":  rem.sort(key = (-k, -t, random))
Before(dt, mode, a, b) ==
    CASE mode = "rh" ->
           \/ dt.val[TaskOf(a)][SlotOf(a)] > dt.val[TaskOf(b)][SlotOf(b)]
           \/ /\ dt.val[TaskOf(a)][SlotOf(a)] = dt.val[TaskOf(b)][SlotOf(b)]
              /\ P4(dt, a) > P4(dt, b)
      [] mode = "rg" ->
           \/ dt.S[TaskOf(a)] > dt.S[TaskOf(b)]
           \/ /\ dt.S[TaskOf(a)] = dt.S[TaskOf(b)]
              /\ P4(dt, a) > P4(dt, b)
      [] mode = "rem" ->
           \/ a[1] > b[1]
           \/ /\ a[1] = b[1]
              /\ a[2] > b[2]
      [] mode = "parsed" ->
           \/ dt.val[TaskOf(a)][SlotOf(a)] > dt.val[TaskOf(b)][SlotOf(b)]
           \/ /\ dt.val[TaskOf(a)][SlotOf(a)] = dt.val[TaskOf(b)][SlotOf(b)]
              /\ \/ a[1] < b[1]
                 \/ a[1] = b[1] /\ a[2] < b[2]
                 \/ a[1] = b[1] /\ a[2] = b[2] /\ a[4] = "t1" /\ b[4] = "t2"

\* every order a sort with random tie-break keys can produce
RECURSIVE Orders(_, _, _)
Orders(dt, mode, C) ==
    IF C = {} THEN {<<>>}
    ELSE LET first == {m \in C : \A o \in C : ~Before(dt, mode, o, m)}
         IN UNION {{<<m>> \o rest : rest \in Orders(dt, mode, C \ {m})} : m \in first}

---------------------------------------------------------------------------
(* run_heuristic.py: greedy                                                *)

\* inc_add without the update of daily: a fault that tracker consistency
\* must detect
inc_add_without_daily(rec) ==
    LET q == TaskOf(rec) IN
    /\ a2' = [a2 EXCEPT ![q] = @ + P4(data, rec)]
    /\ x2' = [x2 EXCEPT ![q] = completion(data, q, a2'[q])]
    /\ G'  = [G EXCEPT ![rec[3]] = @ + data.S[q] * (x2'[q] - x2[q])]
    /\ daily' = daily

\* inc_add: the O(1) update of a2, x2, G, daily for one added rec
inc_add(rec) ==
    LET q == TaskOf(rec) IN
    /\ a2' = [a2 EXCEPT ![q] = @ + P4(data, rec)]
    /\ x2' = [x2 EXCEPT ![q] = completion(data, q, a2'[q])]
    /\ G'  = [G EXCEPT ![rec[3]] = @ + data.S[q] * (x2'[q] - x2[q])]
    /\ daily' = [daily EXCEPT ![rec[1]] = @ + 1]

\* unmet_of with <= for <: a fault that the feasibility report must detect
unmet_of_including_equal(Gf) == {c \in data.I : Gf[c] <= data.B[c]}

\* courses with G < B
unmet_of(Gf) == {c \in data.I : Gf[c] < data.B[c]}

\* sweep_skip without its occupancy test: a fault that exclusivity must detect
sweep_skip_ignoring_occ(rec) ==
    \/ data.S[TaskOf(rec)] = 0
    \/ x2[TaskOf(rec)] >= Unit.X
    \/ rec[3] \notin unmet

\* sweep_skip without its completion test: a fault that the placement guard
\* must detect
sweep_skip_ignoring_completion(rec) ==
    \/ SlotOf(rec) \in occ
    \/ data.S[TaskOf(rec)] = 0
    \/ rec[3] \notin unmet

\* the guard of the sweeps: the candidate is passed over
sweep_skip(rec) ==
    \/ SlotOf(rec) \in occ
    \/ data.S[TaskOf(rec)] = 0
    \/ x2[TaskOf(rec)] >= Unit.X
    \/ rec[3] \notin unmet

\* one iteration of a sweep (lines 151-172 and 176-194)
sweep_step ==
    LET rec == frac[pos] IN
    /\ pos' = pos + 1
    /\ IF sweep_skip(rec)
       THEN UNCHANGED <<trackers, unmet>>
       ELSE /\ inc_add(rec)
            /\ sched' = sched \cup {rec}
            /\ occ' = occ \cup {SlotOf(rec)}
            /\ unmet' = IF G'[rec[3]] >= data.B[rec[3]] THEN unmet \ {rec[3]} ELSE unmet

\* prune_skip without its mandatory test: a fault that mandatory inclusion
\* must detect
prune_skip_ignoring_mandatory(rec) ==
    \/ data.S[TaskOf(rec)] = 0
    \/ x2[TaskOf(rec)] >= Unit.X

\* the pruner passes a placed rec over (lines 199-203)
prune_skip(rec) ==
    \/ rec \in mandatory
    \/ data.S[TaskOf(rec)] = 0
    \/ x2[TaskOf(rec)] >= Unit.X

\* a restore that adds the whole old completion back to G: a fault that
\* idempotence of the pruner must detect
restore_G_adding_old(Gnew, rec, old) ==
    [Gnew EXCEPT ![rec[3]] = @ + data.S[TaskOf(rec)] * old]

\* the restore branch's G (line 217): x2 has just been set back to old
restore_G(Gnew, rec, old) ==
    LET x_restored == old
    IN [Gnew EXCEPT ![rec[3]] = @ + data.S[TaskOf(rec)] * (x_restored - old)]

\* prune_step without the feasibility test of lines 211-212: a fault that
\* preservation of feasibility must detect
prune_step_ignoring_feasibility(rec) ==
    IF prune_skip(rec)
    THEN UNCHANGED <<trackers, util, removed>>
    ELSE LET q     == TaskOf(rec)
             old   == x2[q]
             a_new == [a2 EXCEPT ![q] = @ - P4(data, rec)]
             x_new == [x2 EXCEPT ![q] = completion(data, q, a_new[q])]
             G_new == [G EXCEPT ![rec[3]] = @ - data.S[q] * (old - x_new[q])]
             d_new == [daily EXCEPT ![rec[1]] = @ - 1]
             util_new == objective(data, G_new, overtime(data, d_new))
         IN IF util_new >= util
            THEN /\ sched' = sched \ {rec}
                 /\ occ' = occ \ {SlotOf(rec)}
                 /\ a2' = a_new
                 /\ x2' = x_new
                 /\ G' = G_new
                 /\ daily' = d_new
                 /\ util' = util_new
                 /\ removed' = removed \cup {rec}
            ELSE /\ UNCHANGED <<sched, occ, a2, x2, daily, util, removed>>
                 /\ G' = restore_G(G_new, rec, old)

\* one iteration of the prune loop (lines 198-218)
prune_step(rec) ==
    IF prune_skip(rec)
    THEN UNCHANGED <<trackers, util, removed>>
    ELSE LET q     == TaskOf(rec)
             old   == x2[q]
             a_new == [a2 EXCEPT ![q] = @ - P4(data, rec)]
             x_new == [x2 EXCEPT ![q] = completion(data, q, a_new[q])]
             G_new == [G EXCEPT ![rec[3]] = @ - data.S[q] * (old - x_new[q])]
             d_new == [daily EXCEPT ![rec[1]] = @ - 1]
             util_new == objective(data, G_new, overtime(data, d_new))
         IN IF util_new >= util /\ \A c2 \in data.I : G_new[c2] >= data.B[c2]
            THEN /\ sched' = sched \ {rec}
                 /\ occ' = occ \ {SlotOf(rec)}
                 /\ a2' = a_new
                 /\ x2' = x_new
                 /\ G' = G_new
                 /\ daily' = d_new
                 /\ util' = util_new
                 /\ removed' = removed \cup {rec}
            ELSE /\ sched' = (sched \ {rec}) \cup {rec}
                 /\ occ' = (occ \ {SlotOf(rec)}) \cup {SlotOf(rec)}
                 /\ a2' = [a_new EXCEPT ![q] = @ + P4(data, rec)]
                 /\ x2' = [x_new EXCEPT ![q] = old]
                 /\ G' = restore_G(G_new, rec, old)
                 /\ daily' = [d_new EXCEPT ![rec[1]] = @ + 1]
                 /\ util' = util
                 /\ removed' = removed

\* main, line 273: lp_relax succeeds
RH_lp_relax ==
    /\ prog = "run_heuristic" /\ pc = "start"
    /\ ~lp_KeyError(data) /\ ~lp_infeasible(data)
    /\ mandatory' = lp_mandatory(data)
    /\ pc' = "main_loop"
    /\ UNCHANGED <<prog, inst, R, removed, todo, frac, pos, candidates, trackers, unmet, util, driver>>

\* main, line 273: lp_relax raises KeyError on a candidate without productivity
RH_lp_relax_KeyError ==
    /\ prog = "run_heuristic" /\ pc = "start"
    /\ lp_KeyError(data)
    /\ pc' = "crash"
    /\ out' = <<"KeyError", 0>>
    /\ UNCHANGED <<prog, inst, R, removed, mandatory, todo, frac, pos, candidates, trackers, unmet, util,
                   best_u, best_sched, results, restart>>

\* main, line 273: the LP is infeasible, reading var.X raises AttributeError
RH_lp_relax_NoSolution ==
    /\ prog = "run_heuristic" /\ pc = "start"
    /\ ~lp_KeyError(data) /\ lp_infeasible(data)
    /\ pc' = "crash"
    /\ out' = <<"AttributeError", 0>>
    /\ UNCHANGED <<prog, inst, R, removed, mandatory, todo, frac, pos, candidates, trackers, unmet, util,
                   best_u, best_sched, results, restart>>

\* main, lines 281-284, and greedy, lines 131-138: a restart begins
\* a call of greedy that starts from the trackers the previous call left: a
\* fault that independence of the restarts must detect
RH_restart_keeping_trackers ==
    /\ prog = "run_heuristic" /\ pc = "main_loop" /\ restart < R
    /\ todo' = mandatory
    /\ pc' = "seed"
    /\ removed' = {}
    /\ UNCHANGED <<prog, inst, R, mandatory, frac, pos, candidates, trackers, unmet, util, driver>>

RH_restart ==
    /\ prog = "run_heuristic" /\ pc = "main_loop" /\ restart < R
    /\ a2' = [q \in data.J |-> 0]
    /\ x2' = [q \in data.J |-> 0]
    /\ G' = [c \in data.I |-> 0]
    /\ daily' = [k \in 1..data.K |-> 0]
    /\ occ' = {}
    /\ sched' = {}
    /\ todo' = mandatory
    /\ pc' = "seed"
    /\ removed' = {}
    /\ UNCHANGED <<prog, inst, R, mandatory, frac, pos, candidates, unmet, util, driver>>

\* greedy, lines 141-144: seed one mandatory rec
RH_seed ==
    /\ prog = "run_heuristic" /\ pc = "seed"
    /\ \E rec \in todo :
         /\ sched' = sched \cup {rec}
         /\ occ' = occ \cup {SlotOf(rec)}
         /\ inc_add(rec)
         /\ todo' = todo \ {rec}
    /\ UNCHANGED <<prog, inst, R, removed, pc, mandatory, frac, pos, candidates, unmet, util, driver>>

\* greedy, lines 146-148: unmet, and the sort of frac
RH_sort ==
    /\ prog = "run_heuristic" /\ pc = "seed" /\ todo = {}
    /\ unmet' = unmet_of(G)
    /\ frac' \in Orders(data, "rh", lp_y(data))
    /\ pos' = 1
    /\ pc' = "sweep1"
    /\ UNCHANGED <<prog, inst, R, removed, mandatory, todo, candidates, trackers, util, driver>>

\* greedy, lines 151-172: first sweep
RH_sweep1 ==
    /\ prog = "run_heuristic" /\ pc = "sweep1"
    /\ pos <= Len(frac) /\ unmet # {}
    /\ sweep_step
    /\ UNCHANGED <<prog, inst, R, removed, pc, mandatory, todo, frac, candidates, util, driver>>

\* a first sweep that may stop before it has read all of frac: a fault that
\* makes the second sweep place triples
RH_sweep1_end_early ==
    /\ prog = "run_heuristic" /\ pc = "sweep1"
    /\ pc' = "gap"
    /\ UNCHANGED <<prog, inst, R, removed, mandatory, todo, frac, pos, candidates, trackers, unmet, util, driver>>

RH_sweep1_end ==
    /\ prog = "run_heuristic" /\ pc = "sweep1"
    /\ (pos > Len(frac) \/ unmet = {})
    /\ pc' = "gap"
    /\ UNCHANGED <<prog, inst, R, removed, mandatory, todo, frac, pos, candidates, trackers, unmet, util, driver>>

\* greedy, line 175: the second sweep runs only if a course is unmet
RH_gap_fill ==
    /\ prog = "run_heuristic" /\ pc = "gap" /\ unmet # {}
    /\ pos' = 1
    /\ pc' = "sweep2"
    /\ UNCHANGED <<prog, inst, R, removed, mandatory, todo, frac, candidates, trackers, unmet, util, driver>>

RH_gap_skip ==
    /\ prog = "run_heuristic" /\ pc = "gap" /\ unmet = {}
    /\ pc' = "filled"
    /\ UNCHANGED <<prog, inst, R, removed, mandatory, todo, frac, pos, candidates, trackers, unmet, util, driver>>

\* greedy, lines 176-194: second sweep
RH_sweep2 ==
    /\ prog = "run_heuristic" /\ pc = "sweep2"
    /\ pos <= Len(frac) /\ unmet # {}
    /\ sweep_step
    /\ UNCHANGED <<prog, inst, R, removed, pc, mandatory, todo, frac, candidates, util, driver>>

RH_sweep2_end ==
    /\ prog = "run_heuristic" /\ pc = "sweep2"
    /\ (pos > Len(frac) \/ unmet = {})
    /\ pc' = "filled"
    /\ UNCHANGED <<prog, inst, R, removed, mandatory, todo, frac, pos, candidates, trackers, unmet, util, driver>>

\* greedy, lines 195-198: util before pruning, and the snapshot list(sched)
RH_prune_start ==
    /\ prog = "run_heuristic" /\ pc = "filled"
    /\ util' = objective(data, G, overtime(data, daily))
    /\ todo' = sched
    /\ pc' = "prune"
    /\ UNCHANGED <<prog, inst, R, removed, mandatory, frac, pos, candidates, trackers, unmet, driver>>

\* greedy, lines 198-218: the snapshot is visited in the set's iteration order
RH_prune ==
    /\ prog = "run_heuristic" /\ pc = "prune"
    /\ \E rec \in todo :
         /\ prune_step(rec)
         /\ todo' = todo \ {rec}
    /\ UNCHANGED <<prog, inst, R, pc, mandatory, frac, pos, candidates, unmet, driver>>

\* greedy, lines 220-221: return sched, util
RH_return ==
    /\ prog = "run_heuristic" /\ pc = "prune" /\ todo = {}
    /\ util' = objective(data, G, overtime(data, daily))
    /\ pc' = "ret"
    /\ UNCHANGED <<prog, inst, R, removed, mandatory, todo, frac, pos, candidates, trackers, unmet, driver>>

\* main, lines 285-286: keep the restart's result if it beats the best
keep_best(u) == u > best_u

RH_keep ==
    /\ prog = "run_heuristic" /\ pc = "ret"
    /\ IF keep_best(util)
       THEN best_u' = util /\ best_sched' = Some(sched)
       ELSE UNCHANGED <<best_u, best_sched>>
    /\ results' = Append(results, [sched |-> sched, u |-> util, unmet |-> unmet])
    /\ restart' = restart + 1
    /\ pc' = "main_loop"
    /\ UNCHANGED <<prog, inst, R, removed, mandatory, todo, frac, pos, candidates, trackers, unmet, util, out>>

\* main, lines 290-297: the final evaluation of best_sched and the report
RH_report ==
    /\ prog = "run_heuristic" /\ pc = "main_loop" /\ restart = R
    /\ best_sched # None
    /\ out' = <<"Utility", evaluate(data, best_sched[1])>>
    /\ pc' = "done"
    /\ UNCHANGED <<prog, inst, R, removed, mandatory, todo, frac, pos, candidates, trackers, unmet, util,
                   best_u, best_sched, results, restart>>

\* main, line 290: best_sched is still None, the comprehension raises TypeError
RH_report_TypeError ==
    /\ prog = "run_heuristic" /\ pc = "main_loop" /\ restart = R
    /\ best_sched = None
    /\ out' = <<"TypeError", 0>>
    /\ pc' = "crash"
    /\ UNCHANGED <<prog, inst, R, removed, mandatory, todo, frac, pos, candidates, trackers, unmet, util,
                   best_u, best_sched, results, restart>>

RH_Next ==
    \/ RH_lp_relax \/ RH_lp_relax_KeyError \/ RH_lp_relax_NoSolution
    \/ RH_restart \/ RH_seed \/ RH_sort
    \/ RH_sweep1 \/ RH_sweep1_end \/ RH_gap_fill \/ RH_gap_skip
    \/ RH_sweep2 \/ RH_sweep2_end
    \/ RH_prune_start \/ RH_prune \/ RH_return
    \/ RH_keep \/ RH_report \/ RH_report_TypeError

---------------------------------------------------------------------------
(* run_greedy.py: greedy and main.  occ is occupied, daily is daily_used,  *)
(* a2 and x2 are a_ij and x_ij, sched is schedule, unmet is unmet_courses. *)
(* A sorted list is visited by taking, at each iteration, an element that  *)
(* no remaining element must precede: the orders this produces are those   *)
(* of the sort with its random last key.  (rem is sorted anew with fresh   *)
(* random keys, so the order of candidates does not reach the second pass.)*)

\* course_grade(c)
course_grade(c) ==
    LET Jc == {q \in data.J : q[1] = c}
    IN SumOver([q \in Jc |-> data.S[q] * x2[q]], Jc)

\* remaining_slots_allowed(c, task)
remaining_slots_allowed(q) ==
    Max(0, Ceil(data.E[q], SHIFTS_PER_HOUR) - Cardinality(RecsOf(sched, q)))

\* the next element of a sorted list whose unvisited elements are C
NextOf(mode, C) == {m \in C : \A o \in C : ~Before(data, mode, o, m)}

\* lines 44-51: every slot entry is seeded
rg_mandatory(dt) == {rec \in AllRecs(dt) : SlotOf(rec) \in dt.slot[TaskOf(rec)]}

\* lines 70-87: the candidates
rg_candidates ==
    {rec \in AllRecs(data) :
        /\ SlotOf(rec) \notin occ
        /\ InWindow(data, rec)
        /\ remaining_slots_allowed(TaskOf(rec)) # 0}

\* a pass passes the candidate over (lines 93-98 and 118-123)
rg_skip(rec) ==
    \/ SlotOf(rec) \in occ
    \/ x2[TaskOf(rec)] >= Unit.X
    \/ remaining_slots_allowed(TaskOf(rec)) = 0

\* "place it" (lines 101-105 and 125-129)
rg_place(rec) ==
    LET q == TaskOf(rec) IN
    /\ occ' = occ \cup {SlotOf(rec)}
    /\ daily' = [daily EXCEPT ![rec[1]] = @ + 1]
    /\ sched' = sched \cup {rec}
    /\ a2' = [a2 EXCEPT ![q] = @ + P4(data, rec)]
    /\ x2' = [x2 EXCEPT ![q] = completion(data, q, a2'[q])]
    /\ G' = G

\* lines 35-41: the empty trackers; the slot entries to seed
RG_start ==
    /\ prog = "run_greedy" /\ pc = "start"
    /\ mandatory' = rg_mandatory(data)
    /\ todo' = rg_mandatory(data)
    /\ pc' = "rg_seed"
    /\ UNCHANGED <<prog, inst, R, removed, frac, pos, candidates, trackers, unmet, util, driver>>

\* lines 44-51: seed one mandatory seat
RG_seed ==
    /\ prog = "run_greedy" /\ pc = "rg_seed"
    /\ \E rec \in todo :
         /\ IF SlotOf(rec) \notin occ
            THEN /\ occ' = occ \cup {SlotOf(rec)}
                 /\ daily' = [daily EXCEPT ![rec[1]] = @ + 1]
            ELSE UNCHANGED <<occ, daily>>
         /\ sched' = sched \cup {rec}
         /\ a2' = [a2 EXCEPT ![TaskOf(rec)] = @ + P4(data, rec)]
         /\ todo' = todo \ {rec}
    /\ UNCHANGED <<prog, inst, R, removed, pc, mandatory, frac, pos, candidates, x2, G,
                   unmet, util, driver>>

\* lines 54-89: initial completion, the candidate list and its sort
RG_candidates ==
    /\ prog = "run_greedy" /\ pc = "rg_seed" /\ todo = {}
    /\ x2' = [q \in data.J |-> IF data.E[q] > 0 THEN completion(data, q, a2[q]) ELSE Unit.X]
    /\ candidates' = rg_candidates
    /\ todo' = rg_candidates
    /\ pc' = "rg_pass1"
    /\ UNCHANGED <<prog, inst, R, removed, mandatory, frac, pos, a2, G, daily, occ, sched,
                   unmet, util, driver>>

\* lines 92-105: first pass
RG_pass1 ==
    /\ prog = "run_greedy" /\ pc = "rg_pass1"
    /\ \E rec \in NextOf("rg", todo) :
         /\ todo' = todo \ {rec}
         /\ IF rg_skip(rec) THEN UNCHANGED trackers ELSE rg_place(rec)
    /\ UNCHANGED <<prog, inst, R, removed, pc, mandatory, frac, pos, candidates, unmet, util, driver>>

RG_pass1_end ==
    /\ prog = "run_greedy" /\ pc = "rg_pass1" /\ todo = {}
    /\ pc' = "rg_gap"
    /\ UNCHANGED <<prog, inst, R, removed, mandatory, todo, frac, pos, candidates, trackers,
                   unmet, util, driver>>

\* lines 109-114: some course is below its pass line; rem is built and sorted
RG_gap_fill ==
    /\ prog = "run_greedy" /\ pc = "rg_gap"
    /\ unmet_of([c \in data.I |-> course_grade(c)]) # {}
    /\ unmet' = unmet_of([c \in data.I |-> course_grade(c)])
    /\ todo' = {rec \in candidates : rec[3] \in unmet' /\ SlotOf(rec) \notin occ}
    /\ pc' = "rg_pass2"
    /\ UNCHANGED <<prog, inst, R, removed, mandatory, frac, pos, candidates, trackers, util, driver>>

\* line 110: no course is below its pass line
RG_gap_skip ==
    /\ prog = "run_greedy" /\ pc = "rg_gap"
    /\ unmet_of([c \in data.I |-> course_grade(c)]) = {}
    /\ unmet' = {}
    /\ pc' = "rg_filled"
    /\ UNCHANGED <<prog, inst, R, removed, mandatory, todo, frac, pos, candidates, trackers,
                   util, driver>>

\* lines 115-131: second pass
RG_pass2 ==
    /\ prog = "run_greedy" /\ pc = "rg_pass2"
    /\ unmet # {}
    /\ \E rec \in NextOf("rem", todo) :
         /\ todo' = todo \ {rec}
         /\ IF rg_skip(rec)
            THEN UNCHANGED <<trackers, unmet>>
            ELSE /\ rg_place(rec)
                 /\ unmet' = IF SumOver([q \in {p \in data.J : p[1] = rec[3]} |->
                                          data.S[q] * x2'[q]],
                                        {p \in data.J : p[1] = rec[3]}) >= data.B[rec[3]]
                             THEN unmet \ {rec[3]} ELSE unmet
    /\ UNCHANGED <<prog, inst, R, removed, pc, mandatory, frac, pos, candidates, util, driver>>

RG_pass2_end ==
    /\ prog = "run_greedy" /\ pc = "rg_pass2"
    /\ (todo = {} \/ unmet = {})
    /\ pc' = "rg_filled"
    /\ UNCHANGED <<prog, inst, R, removed, mandatory, todo, frac, pos, candidates, trackers,
                   unmet, util, driver>>

\* lines 134-144: the infeasible marker, or the metrics
RG_return ==
    /\ prog = "run_greedy" /\ pc = "rg_filled"
    /\ util' = IF unmet # {} THEN NegInf
               ELSE objective(data, [c \in data.I |-> course_grade(c)], overtime(data, daily))
    /\ pc' = "rg_ret"
    /\ UNCHANGED <<prog, inst, R, removed, mandatory, todo, frac, pos, candidates, trackers,
                   unmet, driver>>

\* main, lines 161-179
RG_main ==
    /\ prog = "run_greedy" /\ pc = "rg_ret"
    /\ out' = IF util = NegInf THEN <<"infeasible", 0>> ELSE <<"Utility", util>>
    /\ pc' = "done"
    /\ UNCHANGED <<prog, inst, R, removed, mandatory, todo, frac, pos, candidates, trackers,
                   unmet, util, best_u, best_sched, results, restart>>

RG_Next ==
    \/ RG_start \/ RG_seed \/ RG_candidates
    \/ RG_pass1 \/ RG_pass1_end \/ RG_gap_fill \/ RG_gap_skip
    \/ RG_pass2 \/ RG_pass2_end \/ RG_return \/ RG_main

---------------------------------------------------------------------------
Init ==
    /\ prog \in {"run_heuristic", "run_greedy"}
    /\ inst \in DOMAIN Instances
    /\ R \in IF prog = "run_heuristic" THEN 0..MaxRestarts ELSE {0}
    /\ pc = "start"
    /\ restart = 0
    /\ mandatory = {}
    /\ todo = {}
    /\ frac = <<>>
    /\ pos = 1
    /\ candidates = {}
    /\ a2 = [q \in data.J |-> 0]
    /\ x2 = [q \in data.J |-> 0]
    /\ G = [c \in data.I |-> 0]
    /\ daily = [k \in 1..data.K |-> 0]
    /\ occ = {}
    /\ sched = {}
    /\ unmet = {}
    /\ util = 0
    /\ best_u = best_u0
    /\ best_sched = None
    /\ results = <<>>
    /\ removed = {}
    /\ out = <<"", 0>>

Next == RH_Next \/ RG_Next

Spec == Init /\ [][Next]_vars

---------------------------------------------------------------------------
(* The prune pass of run_heuristic.greedy (lines 195-221) applied a second *)
(* time to the schedule and the trackers the first pass has left.          *)

Prune_again_start ==
    /\ prog = "run_heuristic" /\ pc = "ret"
    /\ util' = objective(data, G, overtime(data, daily))
    /\ todo' = sched
    /\ pc' = "prune2"
    /\ UNCHANGED <<prog, inst, R, removed, mandatory, frac, pos, candidates, trackers, unmet, driver>>

Prune_again ==
    /\ prog = "run_heuristic" /\ pc = "prune2"
    /\ \E rec \in todo :
         /\ prune_step(rec)
         /\ todo' = todo \ {rec}
    /\ UNCHANGED <<prog, inst, R, pc, mandatory, frac, pos, candidates, unmet, driver>>

Prune_again_end ==
    /\ prog = "run_heuristic" /\ pc = "prune2" /\ todo = {}
    /\ util' = objective(data, G, overtime(data, daily))
    /\ pc' = "ret2"
    /\ UNCHANGED <<prog, inst, R, removed, mandatory, todo, frac, pos, candidates, trackers, unmet, driver>>

InitPrune == Init /\ prog = "run_heuristic" /\ R = 1

NextPrune ==
    \/ RH_lp_relax \/ RH_lp_relax_KeyError \/ RH_lp_relax_NoSolution
    \/ RH_restart \/ RH_seed \/ RH_sort
    \/ RH_sweep1 \/ RH_sweep1_end \/ RH_gap_fill \/ RH_gap_skip
    \/ RH_sweep2 \/ RH_sweep2_end
    \/ RH_prune_start \/ RH_prune \/ RH_return
    \/ Prune_again_start \/ Prune_again \/ Prune_again_end

SpecPrune == InitPrune /\ [][NextPrune]_vars

---------------------------------------------------------------------------
(* Properties *)

Returned   == pc \in {"ret", "rg_ret"}
SweepDone  == pc \in {"gap", "rg_gap"}
Seeded     == pc \in {"sweep1", "gap", "sweep2", "filled", "prune", "ret",
                      "rg_pass1", "rg_gap", "rg_pass2", "rg_filled", "rg_ret"}
InGreedy   == pc = "seed" \/ pc = "rg_seed" \/ Seeded

\* shifts of day k placed by schedule s inside the window starting at t0
InWin(s, k, t0) == {SlotOf(rec) : rec \in {x \in s : x[1] = k /\ x[2] >= t0 /\ x[2] < t0 + WINDOW}}

PacingOK(s) ==
    \A k \in 1..data.K : \A t0 \in 1..(data.T - WINDOW + 1) :
        Cardinality(InWin(s, k, t0)) <= MAX_IN_WINDOW

CapOK(s) ==
    \A q \in data.J : Cardinality(RecsOf(s, q)) <= Ceil(data.E[q], SHIFTS_PER_HOUR)

MandatoryDistinct ==
    \A m1 \in mandatory : \A m2 \in mandatory : SlotOf(m1) = SlotOf(m2) => m1 = m2

\* C1: every returned schedule has at most 4 placed slots in every window of
\* 6 consecutive shifts of every day.
C1_Pacing == Returned => PacingOK(sched)

\* C2: the utility run_heuristic.greedy returns equals the objective
\* recomputed from scratch from the returned schedule.
C2_ObjectiveConsistent == pc = "ret" => util = evaluate(data, sched)

\* C3: the schedule main selects as best is never the result of a restart
\* whose gap-fill sweep ended with a course below its pass line.
C3_InfeasibleDiscarded ==
    (pc = "done" /\ prog = "run_heuristic") =>
        \A i \in DOMAIN results :
            results[i].unmet # {} => best_sched # Some(results[i].sched)

\* C4: when every restart ends with an unmet course, or no restart produced
\* a result, main reports "no feasible schedule found", not a utility.
C4_ReportsInfeasible ==
    (/\ prog = "run_heuristic" /\ pc \in {"done", "crash"} /\ out[1] # "KeyError"
     /\ \A i \in DOMAIN results : results[i].unmet # {})
        => out[1] = "infeasible"

\* C5: in every returned schedule every task has at most
\* ceil(requiredEffort / slotEffortUnit) placed slots.
C5_CapRespect == Returned => CapOK(sched)

\* C6: with pairwise distinct mandatory slots, in every state of seeding,
\* the sweeps and pruning no two triples of the schedule share a slot and
\* the occupancy map marks exactly the slots that hold a triple.
C6_Exclusivity ==
    (InGreedy /\ MandatoryDistinct) =>
        /\ \A x \in sched : \A y \in sched : SlotOf(x) = SlotOf(y) => x = y
        /\ occ = {SlotOf(x) : x \in sched}

\* reached: the pruner has rejected a removal (G differs from the grades of
\* the schedule only after a restore), seeds are in the schedule, and a
\* candidate of another task competes for an occupied slot
C6_Witness ==
    /\ pc = "prune" /\ MandatoryDistinct /\ mandatory # {}
    /\ G # eval_G(data, sched)
    /\ \E rec \in lp_y(data) \ sched : SlotOf(rec) \in occ

\* C7: every mandatory element is in the schedule after seeding, through
\* both sweeps and the prune pass, and in every returned schedule.
C7_MandatoryIncluded ==
    /\ Seeded => mandatory \subseteq sched
    /\ \A i \in DOMAIN results : mandatory \subseteq results[i].sched
    /\ best_sched # None => mandatory \subseteq best_sched[1]

\* reached: in a later restart the pruner has gone past a mandatory rec that
\* its other tests would not have passed over, and has returned
C7_Witness ==
    /\ pc = "ret" /\ results # <<>>
    /\ \E m \in mandatory : ~prune_skip_ignoring_mandatory(m)
    /\ sched # mandatory

\* C8: a placed non-mandatory slot whose task is at completion 1.0 and stays
\* there without it, on an over-capacity day with beta > 0, is removed by the
\* prune pass: none is left when greedy returns.
Superfluous(rec) ==
    /\ rec \in sched \ mandatory
    /\ eval_x(data, sched)[TaskOf(rec)] = Unit.X
    /\ eval_x(data, sched \ {rec})[TaskOf(rec)] = Unit.X
    /\ eval_daily(data, sched)[rec[1]] > data.H[rec[1]]
    /\ data.beta > 0

C8_PrunerRemoves == pc = "ret" => ~ \E rec \in sched : Superfluous(rec)

\* C9: the sweep ends only when the candidate list is exhausted: at its end
\* every unplaced candidate has an occupied slot, a task at full completion,
\* a task at its cap, or would break the pacing rule; scenario 1 ends with
\* exactly 4 placed slots and grade 1.0.
Excused(rec) ==
    \/ SlotOf(rec) \in occ
    \/ x2[TaskOf(rec)] >= Unit.X
    \/ Cardinality(RecsOf(sched, TaskOf(rec))) >= Ceil(data.E[TaskOf(rec)], SHIFTS_PER_HOUR)
    \/ ~PacingOK(sched \cup {rec})

SweepCandidates == IF prog = "run_heuristic" THEN lp_y(data) ELSE candidates

IsScenario1 ==
    /\ data.I = {"c1"} /\ data.J = {<<"c1", "t1">>}
    /\ data.E[<<"c1", "t1">>] = 4 /\ data.S[<<"c1", "t1">>] = Unit.S
    /\ data.B["c1"] = 144 /\ data.beta = 0
    /\ data.slot[<<"c1", "t1">>] = {}
    /\ \A s \in SlotsOf(data.K, data.T) :
          s \in data.Pkeys[<<"c1", "t1">>] /\ data.P[<<"c1", "t1">>][s] = Unit.P

C9_FullSweep ==
    SweepDone =>
        /\ \A rec \in SweepCandidates \ sched : Excused(rec)
        /\ IsScenario1 =>
             /\ Cardinality(sched) = 4
             /\ eval_G(data, sched)["c1"] = Unit.S * Unit.X

\* C10: the objective of the schedule main selects is at least the
\* objective of the schedule of each restart, and among restarts of equal
\* utility the earliest is kept.
C10_MonotonicRestarts ==
    (pc = "done" /\ prog = "run_heuristic") =>
        /\ \A i \in DOMAIN results :
              evaluate(data, best_sched[1]) >= evaluate(data, results[i].sched)
        /\ \E i \in DOMAIN results :
              /\ best_sched = Some(results[i].sched)
              /\ best_u = results[i].u
              /\ \A j \in 1..(i - 1) : results[j].u < results[i].u

C12_FeasibleIffReported ==
    /\ pc = "rg_ret" =>
          (util = NegInf <=> \E c \in data.I : eval_G(data, sched)[c] < data.B[c])
    /\ (pc = "done" /\ prog = "run_greedy") =>
          (out[1] = "infeasible" <=> \E c \in data.I : eval_G(data, sched)[c] < data.B[c])

\* reached: greedy returns the marker for a schedule of several slots, the
\* second pass having run
C12_Witness ==
    /\ pc = "rg_ret" /\ util = NegInf
    /\ Cardinality(sched) >= 2
    /\ \E c \in data.I : eval_G(data, sched)[c] < data.B[c]

\* the instance has two mandatory candidates on one slot
DuplicateMandatory ==
    \E m1 \in rg_mandatory(data) : \E m2 \in rg_mandatory(data) :
        m1 # m2 /\ SlotOf(m1) = SlotOf(m2)

\* the instance has a mandatory slot outside the window of its task
MandatoryOutsideWindow == \E m \in rg_mandatory(data) : ~InWindow(data, m)

\* C13: an instance with two mandatory candidates on one slot is rejected as
\* malformed before any placement: the program never leaves its setup, places
\* nothing, and what it reports is the malformed input.
C13_DuplicateMandatoryRejected ==
    DuplicateMandatory =>
        /\ pc \in {"start", "crash"}
        /\ sched = {}
        /\ pc = "crash" => out[1] = "malformed"

\* C14: an instance with a mandatory slot outside its task's window is
\* rejected as malformed before any restart: the slot is neither dropped from
\* the mandatory set nor placed, and no schedule is produced.
C14_MandatoryOutsideWindowRejected ==
    MandatoryOutsideWindow =>
        /\ pc \in {"start", "crash"}
        /\ sched = {}
        /\ pc = "crash" => out[1] = "malformed"

\* C15: every triple of a schedule built by lp_relax and run_heuristic.greedy
\* lies in the release/due window of its task, mandatory triples included.
C15_WindowMembership ==
    prog = "run_heuristic" =>
        /\ \A rec \in sched : InWindow(data, rec)
        /\ \A i \in DOMAIN results : \A rec \in results[i].sched : InWindow(data, rec)
        /\ best_sched # None => \A rec \in best_sched[1] : InWindow(data, rec)

\* reached: greedy returns a schedule with a mandatory and a swept triple for
\* an instance whose tasks have different windows and that lists a mandatory
\* slot outside its task's window
C15_Witness ==
    /\ pc = "ret" /\ MandatoryOutsideWindow
    /\ mandatory # {} /\ sched # mandatory
    /\ \E q1 \in data.J : \E q2 \in data.J : data.r[q1] # data.r[q2] /\ data.d[q1] # data.d[q2]

\* C16: the utility the heuristics report for a schedule that meets every
\* pass line equals the objective of run.py's model for the same assignment.
C16_SameObjectiveAsRunPy ==
    /\ (pc = "done" /\ prog = "run_heuristic" /\ unmet_of(eval_G(data, best_sched[1])) = {})
          => out[2] = run_py_objective(data, eval_G(data, best_sched[1]),
                                       overtime(data, eval_daily(data, best_sched[1])))
    /\ (pc = "rg_ret" /\ util # NegInf)
          => util = run_py_objective(data, eval_G(data, sched),
                                     overtime(data, eval_daily(data, sched)))

\* C17: a slot without a productivity entry for a task is never placed for
\* that task unless it is mandatory, and the program does not fail on it.
C17_UndefinedProductivityNotPlaced ==
    /\ out[1] # "KeyError"
    /\ \A rec \in sched \ rg_mandatory(data) : SlotOf(rec) \in data.Pkeys[TaskOf(rec)]

\* C18: a step of the first or the second sweep of run_heuristic.greedy adds
\* a triple only for a task of positive weight whose completion is below 1.0
\* before the step.
C18_SweepGuard ==
    [][(prog = "run_heuristic" /\ pc \in {"sweep1", "sweep2"})
         => \A rec \in sched' \ sched :
               data.S[TaskOf(rec)] > 0 /\ x2[TaskOf(rec)] < Unit.X]_vars

\* reached: a sweep has passed over a candidate on a free slot whose course
\* is below its pass line and whose task, of positive weight, is complete
C18_Witness ==
    /\ prog = "run_heuristic" /\ pc \in {"sweep1", "sweep2"}
    /\ \E i \in 1..(pos - 1) :
          /\ data.S[TaskOf(frac[i])] > 0
          /\ x2[TaskOf(frac[i])] >= Unit.X
          /\ SlotOf(frac[i]) \notin occ
          /\ frac[i][3] \in unmet

\* C19: a prune step that leaves the schedule as it was (the removal was
\* rejected and the triple restored) leaves a, x, G, daily and occupancy as
\* they were.
C19_RestoreIsInverse ==
    [][(pc = "prune" /\ pc' = "prune" /\ sched' = sched)
         => (a2' = a2 /\ x2' = x2 /\ G' = G /\ daily' = daily /\ occ' = occ)]_vars

\* C20: in every state of run_heuristic.greedy before pruning starts, a, x,
\* G and daily equal their values recomputed from the schedule.
C20_TrackerConsistency ==
    (prog = "run_heuristic" /\ pc \in {"seed", "sweep1", "gap", "sweep2", "filled"}) =>
        /\ a2 = eval_a(data, sched)
        /\ x2 = eval_x(data, sched)
        /\ G = eval_G(data, sched)
        /\ daily = eval_daily(data, sched)

\* reached: the sweeps have ended on a schedule with a mandatory and a swept
\* triple, and with a task whose accumulated effort exceeds its requirement
C20_Witness ==
    /\ prog = "run_heuristic" /\ pc = "filled"
    /\ mandatory # {} /\ sched # mandatory
    /\ \E q \in data.J : a2[q] > Unit.P * data.E[q]

\* every course's grade recomputed from schedule s is at least its pass line
FeasibleSched(s) == \A c \in data.I : eval_G(data, s)[c] >= data.B[c]

\* C21: if every course is at its pass line when pruning starts, then after
\* each accepted removal and at the end of the pass every course's grade
\* recomputed from the schedule is still at its pass line.
C21_PrunePreservesFeasibility ==
    (prog = "run_heuristic" /\ pc \in {"prune", "ret"} /\ unmet = {}) => FeasibleSched(sched)

\* reached: greedy returns after the pruner has removed a triple of a
\* schedule that met every pass line
C21_Witness ==
    /\ pc = "ret" /\ unmet = {} /\ removed # {}
    /\ FeasibleSched(sched \cup removed)

\* C22: a removal the pruner keeps does not lower the objective recomputed
\* from the schedule, and a removal that leaves the recomputed objective
\* equal and every course at its pass line is kept.
C22_PruneNeverLowers ==
    [][(prog = "run_heuristic" /\ pc = "prune" /\ pc' = "prune") =>
         /\ sched' # sched => evaluate(data, sched') >= evaluate(data, sched)
         /\ \A rec \in todo \ todo' :
               (/\ ~prune_skip(rec)
                /\ evaluate(data, sched \ {rec}) = evaluate(data, sched)
                /\ FeasibleSched(sched \ {rec}))
                  => sched' = sched \ {rec}]_vars

\* C23: the gap filler examines the remaining candidates of the unmet courses
\* in non-increasing order of productivity: a candidate examined in the
\* second pass is at least as productive as every candidate examined after it.
C23_GapFillerByProductivity ==
    [][/\ (prog = "run_greedy" /\ pc = "rg_pass2" /\ pc' = "rg_pass2") =>
             \A A \in todo \ todo' : \A B \in todo' : P4(data, A) >= P4(data, B)
       /\ (prog = "run_heuristic" /\ pc = "sweep2" /\ pc' = "sweep2" /\ pos' = pos + 1) =>
             \A n \in pos' .. Len(frac) :
                 (frac[pos][3] \in unmet /\ frac[n][3] \in unmet)
                     => P4(data, frac[pos]) >= P4(data, frac[n])]_vars

prune_state == [a2 |-> a2, x2 |-> x2, G |-> G, daily |-> daily, sched |-> sched, util |-> util]

\* one iteration of the prune loop (lines 199-218) as a function of the
\* quantities before it
prune_once(st, rec) ==
    IF rec \in mandatory \/ data.S[TaskOf(rec)] = 0 \/ st.x2[TaskOf(rec)] >= Unit.X
    THEN st
    ELSE LET q     == TaskOf(rec)
             old   == st.x2[q]
             a_new == [st.a2 EXCEPT ![q] = @ - P4(data, rec)]
             x_new == [st.x2 EXCEPT ![q] = completion(data, q, a_new[q])]
             G_new == [st.G EXCEPT ![rec[3]] = @ - data.S[q] * (old - x_new[q])]
             d_new == [st.daily EXCEPT ![rec[1]] = @ - 1]
             util_new == objective(data, G_new, overtime(data, d_new))
         IN IF util_new >= st.util /\ \A c2 \in data.I : G_new[c2] >= data.B[c2]
            THEN [a2 |-> a_new, x2 |-> x_new, G |-> G_new, daily |-> d_new,
                  sched |-> st.sched \ {rec}, util |-> util_new]
            ELSE [st EXCEPT !.G = restore_G(G_new, rec, old)]

\* the results (schedule and returned utility, lines 220-221) the prune loop
\* can return from st when the triples of rest are still to be visited, over
\* every order in which the set can be iterated
RECURSIVE prune_outcomes(_, _)
prune_outcomes(st, rest) ==
    IF rest = {}
    THEN {<<st.sched, objective(data, st.G, overtime(data, st.daily))>>}
    ELSE UNION {prune_outcomes(prune_once(st, rec), rest \ {rec}) : rec \in rest}

\* C25: the pruned schedule and utility that greedy returns do not depend on
\* the order in which the set of placed triples is iterated.
C25_PrunerOrderIndependent ==
    (prog = "run_heuristic" /\ pc = "prune" /\ removed = {} /\ todo = sched)
        => Cardinality(prune_outcomes(prune_state, todo)) = 1

\* C26: every call of greedy starts from an empty schedule and zeroed
\* trackers, whatever earlier restarts did, and leaves the mandatory set and
\* the contents of the candidate list as lp_relax returned them.
C26_RestartsShareNoState ==
    prog = "run_heuristic" =>
        /\ (pc = "seed" /\ todo = mandatory) =>
               /\ sched = {} /\ occ = {}
               /\ a2 = [q \in data.J |-> 0] /\ x2 = [q \in data.J |-> 0]
               /\ G = [c \in data.I |-> 0] /\ daily = [k \in 1..data.K |-> 0]
        /\ (pc \in {"main_loop", "seed"} \/ InGreedy \/ pc = "ret") =>
               mandatory = lp_mandatory(data)
        /\ (restart >= 1 /\ pc \in {"main_loop", "seed"}) =>
               /\ {frac[n] : n \in 1 .. Len(frac)} = lp_y(data)
               /\ Len(frac) = Cardinality(lp_y(data))

\* reached: a second call of greedy starts after a first call that returned
\* a schedule with placed triples
C26_Witness ==
    /\ prog = "run_heuristic" /\ restart >= 1 /\ pc = "seed" /\ todo = mandatory
    /\ results[1].sched # {} /\ results[1].sched # mandatory

\* C27: without an oracle the constructor ranks by productivity descending
\* and only then by task weight descending: a candidate examined in the
\* first pass of run_greedy is at least as productive as every candidate
\* examined after it, and of at least the weight of those as productive.
C27_FallbackByProductivity ==
    [][(prog = "run_greedy" /\ pc = "rg_pass1" /\ pc' = "rg_pass1") =>
          \A A \in todo \ todo' : \A B \in todo' :
              \/ P4(data, A) > P4(data, B)
              \/ /\ P4(data, A) = P4(data, B)
                 /\ data.S[TaskOf(A)] >= data.S[TaskOf(B)]]_vars

----------------------------------------------------------------------------
(* run.py: the exact model (lines 100-167).  An assignment of the binary   *)
(* variables y is kept as the set of triples with y = 1; x, a, z and G are *)
(* the continuous variables the solver is free to set.                     *)

\* lines 106-111: a variable y exists for every triple inside its window
run_py_y(dt) == {rec \in AllRecs(dt) : InWindow(dt, rec)}

\* lines 119-125: mandatory seat-times that are variables are fixed to 1
run_py_mandatory(dt) == {rec \in run_py_y(dt) : SlotOf(rec) \in dt.slot[TaskOf(rec)]}

\* line 145: range(1, SHIFTS - 5), the window starts that get a constraint
run_py_window_starts(dt) == 1 .. (dt.T - 5 - 1)

\* lines 144-149: at most 4 worked shifts in t0 .. t0+5, for the starts of
\* line 145
run_py_break_rule(dt, ys) ==
    \A k \in 1..dt.K : \A t0 \in run_py_window_starts(dt) :
        Cardinality({rec \in ys : rec[1] = k /\ rec[2] \in t0 .. (t0 + 5)}) <= 4

\* lines 119-162: the assignment ys can be completed to a solution of the
\* model (x <= min(1, a/E) lets G reach sum of S*min(1, a/E); z is free above)
run_py_satisfies(dt, ys) ==
    /\ run_py_mandatory(dt) \subseteq ys
    /\ \A s \in SlotsOf(dt.K, dt.T) : Cardinality({rec \in ys : SlotOf(rec) = s}) <= 1
    /\ run_py_break_rule(dt, ys)
    /\ \A c \in dt.I : eval_G(dt, ys)[c] >= dt.B[c]

InitRunPy ==
    /\ prog = "run.py"
    /\ inst \in DOMAIN Instances
    /\ R = 0
    /\ pc = "model"
    /\ restart = 0
    /\ mandatory = {}
    /\ todo = {}
    /\ frac = <<>>
    /\ pos = 1
    /\ candidates = {}
    /\ a2 = [q \in data.J |-> 0]
    /\ x2 = [q \in data.J |-> 0]
    /\ G = [c \in data.I |-> 0]
    /\ daily = [k \in 1..data.K |-> 0]
    /\ occ = {}
    /\ sched = {}
    /\ unmet = {}
    /\ util = 0
    /\ best_u = best_u0
    /\ best_sched = None
    /\ results = <<>>
    /\ removed = {}
    /\ out = <<"", 0>>

\* one more variable y set to 1 in the assignment under consideration
RunPy_assign ==
    /\ prog = "run.py" /\ pc = "model"
    /\ \E rec \in run_py_y(data) \ sched : sched' = sched \cup {rec}
    /\ UNCHANGED <<prog, inst, R, removed, pc, mandatory, todo, frac, pos, candidates,
                   a2, x2, G, daily, occ, unmet, util, driver>>

\* lines 119-167: the assignment is tested against the constraints; its
\* value is the objective of lines 164-166
RunPy_constraints ==
    /\ prog = "run.py" /\ pc = "model"
    /\ pc' = "solved"
    /\ mandatory' = run_py_mandatory(data)
    /\ out' = IF run_py_satisfies(data, sched)
              THEN <<"feasible", run_py_objective(data, eval_G(data, sched),
                                                  overtime(data, eval_daily(data, sched)))>>
              ELSE <<"infeasible", 0>>
    /\ UNCHANGED <<prog, inst, R, removed, todo, frac, pos, candidates, trackers, unmet,
                   util, best_u, best_sched, results, restart>>

NextRunPy == RunPy_assign \/ RunPy_constraints

SpecRunPy == InitRunPy /\ [][NextRunPy]_vars

\* C28: every assignment that satisfies run.py's model has at most 4 worked
\* shifts in every window of 6 consecutive shifts of a day, the last window
\* included.
C28_BreakRuleEveryWindow ==
    (prog = "run.py" /\ pc = "solved" /\ out[1] = "feasible") => PacingOK(sched)

----------------------------------------------------------------------------
(* heuristic.py and simple_heuristic.py: the rounding loops.  The selection *)
(* (the keys of binary_y or selected set to 1) is kept in sched, the keys   *)
(* still to be read in todo, best_obj in best_u; simple_heuristic's         *)
(* used_shifts is occ, its shifts_count is daily and its a_loc is a2, and   *)
(* shifts_by_day[k] holds the shifts of day k in used_shifts.               *)

\* heuristic.py, lines 37-42: no two selected keys share a (k, t)
hard_exclusive(s) == \A m1 \in s : \A m2 \in s : SlotOf(m1) = SlotOf(m2) => m1 = m2

\* heuristic.py, lines 44-50: for every worked shift t of a day, no window
\* [start, start+5] with max(1, t-5) <= start <= t holds more than 4
hard_break(dt, s) ==
    \A k \in 1..dt.K :
        LET shifts == {rec[2] : rec \in {m \in s : m[1] = k}}
        IN \A t \in shifts : \A start \in Max(1, t - 5) .. t :
               Cardinality({x \in shifts : start <= x /\ x < start + 6}) <= 4

\* heuristic.py, lines 30-51
check_hard_constraints(dt, s) == hard_exclusive(s) /\ hard_break(dt, s)

\* heuristic.py, lines 53-74 (and simple_heuristic.py, lines 123-126)
check_minimum_grades(dt, s) == \A c \in dt.I : eval_G(dt, s)[c] >= dt.B[c]

\* heuristic.py, lines 76-102: gpa * 4 / sum(w) - beta * overtime
compute_objective(dt, s) == objective(dt, eval_G(dt, s), overtime(dt, eval_daily(dt, s)))

\* simple_heuristic.py, lines 77-85: sum of w * G - beta * overtime, from
\* a_loc and shifts_count, in units of 1/480
current_objective(dt, a, cnt) ==
    LET Gf == [c \in dt.I |-> LET Jc == {q \in dt.J : q[1] = c}
                              IN SumOver([q \in Jc |-> dt.S[q] * completion(dt, q, a[q])], Jc)]
    IN Unit.B * SumOver([c \in dt.I |-> dt.w[c] * Gf[c]], dt.I)
         - dt.beta * overtime(dt, cnt) * Unit.S * Unit.X

\* heuristic.py, lines 223-232: the variables y with a positive LP value
parsed_keys(dt) == {rec \in run_py_y(dt) : dt.val[TaskOf(rec)][SlotOf(rec)] > 0}

\* simple_heuristic.py, lines 58-64: the keys of P inside the window
all_keys(dt) == {rec \in AllRecs(dt) : SlotOf(rec) \in dt.Pkeys[TaskOf(rec)] /\ InWindow(dt, rec)}

\* a break-rule test that looks only at the window starting at the new
\* shift: a fault that equivalence with check_hard_constraints must detect
simple_bad_forward_only(key) ==
    LET day_shifts == {s[2] : s \in {u \in occ : u[1] = key[1]}} \cup {key[2]}
    IN Cardinality({x \in day_shifts : key[2] <= x /\ x < key[2] + 6}) > 4

\* simple_heuristic.py, lines 101-106: the break rule on the new shift's day,
\* for the windows that contain the new shift
simple_bad(key) ==
    LET day_shifts == {s[2] : s \in {u \in occ : u[1] = key[1]}} \cup {key[2]}
    IN \E start \in Max(1, key[2] - 5) .. key[2] :
           Cardinality({x \in day_shifts : start <= x /\ x < start + 6}) > 4

\* simple_heuristic.py, lines 95-109: the candidate passes both hard tests
simple_accepts(key) == SlotOf(key) \notin occ /\ ~simple_bad(key)

\* heuristic.py line 236 and simple_heuristic.py line 87: best_obj = -1e99
\* is kept as None
has_solution == best_sched # None

\* instances small enough for every order of the shuffle
RoundInstances == {n \in DOMAIN Instances : Cardinality(run_py_y(Instances[n])) <= 8}

InitRound ==
    /\ prog \in {"heuristic", "simple_heuristic"}
    /\ inst \in RoundInstances
    /\ R = 0
    /\ pc = "round"
    /\ restart = 0
    /\ mandatory = {}
    /\ todo = IF prog = "heuristic" THEN parsed_keys(data) ELSE all_keys(data)
    /\ frac = <<>>
    /\ pos = 1
    /\ candidates = {}
    /\ a2 = [q \in data.J |-> 0]
    /\ x2 = [q \in data.J |-> 0]
    /\ G = [c \in data.I |-> 0]
    /\ daily = [k \in 1..data.K |-> 0]
    /\ occ = {}
    /\ sched = {}
    /\ unmet = {}
    /\ util = 0
    /\ best_u = 0
    /\ best_sched = None
    /\ results = <<>>
    /\ removed = {}
    /\ out = <<"", 0>>

\* heuristic.py, lines 238-259: one iteration on the next key of parsed
H_round ==
    /\ prog = "heuristic" /\ pc = "round"
    /\ \E key \in NextOf("parsed", todo) :
         /\ todo' = todo \ {key}
         /\ IF ~check_hard_constraints(data, sched \cup {key})
            THEN UNCHANGED <<sched, best_u, best_sched, pc>>
            ELSE LET obj == compute_objective(data, sched \cup {key})
                 IN IF has_solution /\ obj < best_u
                       /\ check_minimum_grades(data, sched \cup {key})
                    THEN /\ pc' = "stop"
                         /\ UNCHANGED <<sched, best_u, best_sched>>
                    ELSE /\ sched' = sched \cup {key}
                         /\ best_u' = obj
                         /\ best_sched' = Some(sched')
                         /\ pc' = pc
    /\ UNCHANGED <<prog, inst, R, removed, mandatory, frac, pos, candidates, a2, x2, G, daily,
                   occ, unmet, util, results, out, restart>>

\* heuristic.py, lines 261-270: the loop has read all of parsed, or stopped
H_done ==
    /\ prog = "heuristic"
    /\ (pc = "round" /\ todo = {}) \/ pc = "stop"
    /\ pc' = "done"
    /\ out' = <<"Final objective", best_u>>
    /\ UNCHANGED <<prog, inst, R, removed, mandatory, todo, frac, pos, candidates, trackers,
                   unmet, util, best_u, best_sched, results, restart>>

\* simple_heuristic.py, lines 90-136: one iteration on the next key of the
\* shuffled list
S_round ==
    /\ prog = "simple_heuristic" /\ pc = "round"
    /\ \E key \in todo :
         /\ todo' = todo \ {key}
         /\ IF ~simple_accepts(key)
            THEN UNCHANGED <<sched, occ, daily, a2, best_u, best_sched, pc>>
            ELSE LET a_new == [a2 EXCEPT ![TaskOf(key)] = @ + data.P[TaskOf(key)][SlotOf(key)]]
                     c_new == [daily EXCEPT ![key[1]] = @ + 1]
                     obj   == current_objective(data, a_new, c_new)
                     grades_ok == \A c \in data.I :
                         LET Jc == {q \in data.J : q[1] = c}
                         IN SumOver([q \in Jc |-> data.S[q] * completion(data, q, a_new[q])], Jc)
                              >= data.B[c]
                 IN IF has_solution /\ obj < best_u /\ grades_ok
                    THEN /\ pc' = "stop"
                         /\ UNCHANGED <<sched, occ, daily, a2, best_u, best_sched>>
                    ELSE /\ sched' = sched \cup {key}
                         /\ occ' = occ \cup {SlotOf(key)}
                         /\ daily' = c_new
                         /\ a2' = a_new
                         /\ best_u' = obj
                         /\ best_sched' = Some(sched')
                         /\ pc' = pc
    /\ UNCHANGED <<prog, inst, R, removed, mandatory, frac, pos, candidates, x2, G,
                   unmet, util, results, out, restart>>

\* simple_heuristic.py, lines 138-139: the loop has read every key, or stopped
S_done ==
    /\ prog = "simple_heuristic"
    /\ (pc = "round" /\ todo = {}) \/ pc = "stop"
    /\ pc' = "done"
    /\ out' = <<"Final objective", best_u>>
    /\ UNCHANGED <<prog, inst, R, removed, mandatory, todo, frac, pos, candidates, trackers,
                   unmet, util, best_u, best_sched, results, restart>>

NextRound == H_round \/ H_done \/ S_round \/ S_done

SpecRound == InitRound /\ [][NextRound]_vars

\* C29: simple_heuristic's incremental test accepts a candidate exactly when
\* check_hard_constraints accepts the selection with the candidate added, and
\* in both rounding loops the selection never shares a slot and never has
\* more than 4 worked shifts in a 6-shift window of a day.
C29_IncrementalCheckEquivalent ==
    /\ (prog = "simple_heuristic" /\ pc = "round") =>
           \A key \in todo :
               simple_accepts(key) <=> check_hard_constraints(data, sched \cup {key})
    /\ (prog \in {"heuristic", "simple_heuristic"}) =>
           /\ check_hard_constraints(data, sched)
           /\ PacingOK(sched)
           /\ (prog = "simple_heuristic" => occ = {SlotOf(rec) : rec \in sched})

\* reached: simple_heuristic has four shifts selected, a remaining candidate
\* on a free shift that the break rule rejects, and one on a used shift
C29_Witness ==
    /\ prog = "simple_heuristic" /\ pc = "round" /\ Cardinality(sched) >= 4
    /\ \E key \in todo : SlotOf(key) \notin occ /\ simple_bad(key)
    /\ \E key \in todo : SlotOf(key) \in occ

\* C30: when a rounding loop stops early because the objective got worse and
\* the minimum grades are met, the selection left after the undo gives every
\* course a grade of at least its minimum.
C30_EarlyStopKeepsGrades ==
    (prog \in {"heuristic", "simple_heuristic"} /\ pc = "stop")
        => check_minimum_grades(data, sched)

===========================================================================
